---------------------------- MODULE Spec2Model ----------------------------
(***************************************************************************)
(* Model of the SABBAR lead-qualification core (src/app/ai):               *)
(*   - the two qualification scorers and the two lead-quality classifiers  *)
(*     (agent.py, tools.py, state.py),                                     *)
(*   - the rule-based extractor of agent.py, on texts abstracted to the    *)
(*     lexemes its keyword tables and regular expressions react to,        *)
(*   - the QualificationAgent lifecycle (start / continue / get / end)     *)
(*     over its in-memory cache and the external store,                    *)
(*   - the QualificationWorkflow turn (workflow.py).                       *)
(*                                                                         *)
(* Python values: an Optional value is None == <<>> or Some(v) == <<v>>;   *)
(* truthiness follows Python (None, 0, "" and empty collections are        *)
(* falsy).                                                                 *)
(***************************************************************************)
EXTENDS Integers, Sequences, FiniteSets, TLC

None == <<>>
Some(v) == <<v>>

\* Python truthiness of an Optional[int]: None and 0 are falsy.
TruthyInt(o) == o # None /\ o[1] # 0
\* Python truthiness of an Optional[str]: None and "" are falsy.
TruthyStr(o) == o # None /\ o[1] # ""
\* Python truthiness of an Optional[str] holding a digit string (kept as a
\* sequence of digits): None and the empty string are falsy, "0" is truthy.
TruthyDigits(o) == o # None /\ Len(o[1]) > 0

Min(a, b) == IF a <= b THEN a ELSE b

\* F(e), with e evaluated once (a local variable of the code).
Let(e, F(_)) == CHOOSE r \in {F(x) : x \in {e}} : TRUE

(***************************************************************************)
(* Scoring: agent.py _calculate_score / _determine_lead_quality and        *)
(* tools.py calculate_qualification_score / classify_lead_quality.         *)
(***************************************************************************)

\* A plausible slip in the turn scorer: the phone weighted like "contact
\* complete" (15) instead of 10.
TurnScorePhone15(criteria, contact_info) ==
    LET s1 == IF TruthyInt(criteria.budget_min) \/ TruthyInt(criteria.budget_max)
              THEN 25 ELSE 0
        s2 == s1 + (IF criteria.preferred_cities # {} THEN 20 ELSE 0)
        s3 == s2 + (IF criteria.preferred_types # {} THEN 15 ELSE 0)
        s4 == s3 + (IF TruthyStr(criteria.transaction_type) THEN 10 ELSE 0)
        s5 == s4 + (IF TruthyInt(criteria.rooms) THEN 5 ELSE 0)
        s6 == s5 + (IF TruthyInt(criteria.area) THEN 5 ELSE 0)
        s7 == s6 + (IF TruthyStr(contact_info.name) THEN 5 ELSE 0)
        s8 == s7 + (IF TruthyDigits(contact_info.phone) THEN 15 ELSE 0)
        s9 == s8 + (IF TruthyStr(contact_info.email) THEN 5 ELSE 0)
    IN  Min(s9, 100)

\* QualificationAgent._calculate_score(criteria, contact_info)
CalculateScore(criteria, contact_info) ==
    LET s1 == IF TruthyInt(criteria.budget_min) \/ TruthyInt(criteria.budget_max)
              THEN 25 ELSE 0
        s2 == s1 + (IF criteria.preferred_cities # {} THEN 20 ELSE 0)
        s3 == s2 + (IF criteria.preferred_types # {} THEN 15 ELSE 0)
        s4 == s3 + (IF TruthyStr(criteria.transaction_type) THEN 10 ELSE 0)
        s5 == s4 + (IF TruthyInt(criteria.rooms) THEN 5 ELSE 0)
        s6 == s5 + (IF TruthyInt(criteria.area) THEN 5 ELSE 0)
        s7 == s6 + (IF TruthyStr(contact_info.name) THEN 5 ELSE 0)
        s8 == s7 + (IF TruthyDigits(contact_info.phone) THEN 10 ELSE 0)
        s9 == s8 + (IF TruthyStr(contact_info.email) THEN 5 ELSE 0)
    IN  Min(s9, 100)

\* QualificationAgent._determine_lead_quality(score)
DetermineLeadQuality(score) ==
    IF score >= 70 THEN "hot"
    ELSE IF score >= 40 THEN "warm"
    ELSE "cold"

\* A plausible slip in the workflow scorer: the cap of the specific-criteria
\* points forgotten.
WorkflowScoreNoCap(budget_defined, location_defined, property_type_defined, timeframe_defined, contact_info_complete, specific_criteria_count, engagement_level) ==
    (IF budget_defined THEN 25 ELSE 0)
    + (IF location_defined THEN 20 ELSE 0)
    + (IF property_type_defined THEN 15 ELSE 0)
    + (IF timeframe_defined THEN 10 ELSE 0)
    + (IF contact_info_complete THEN 15 ELSE 0)
    + specific_criteria_count * 5
    + Min(engagement_level \div 2, 5)

\* tools.calculate_qualification_score(...). int(engagement_level / 2)
\* truncates toward zero, which is \div for the non-negative levels the
\* workflow produces.
CalculateQualificationScore(budget_defined, location_defined, property_type_defined, timeframe_defined, contact_info_complete, specific_criteria_count, engagement_level) ==
    LET s1 == IF budget_defined THEN 25 ELSE 0
        s2 == s1 + (IF location_defined THEN 20 ELSE 0)
        s3 == s2 + (IF property_type_defined THEN 15 ELSE 0)
        s4 == s3 + (IF timeframe_defined THEN 10 ELSE 0)
        s5 == s4 + (IF contact_info_complete THEN 15 ELSE 0)
        criteria_points == Min(specific_criteria_count * 5, 10)
        s6 == s5 + criteria_points
        engagement_points == Min(engagement_level \div 2, 5)
        s7 == s6 + engagement_points
    IN  s7

\* tools.classify_lead_quality(score)
ClassifyLeadQuality(score) ==
    IF score >= 70 THEN "hot"
    ELSE IF score >= 50 THEN "warm"
    ELSE "cold"

\* state.is_lead_qualified(state)
IsLeadQualified(state) == state.qualification_score >= 50


(***************************************************************************)
(* Texts.  A text is abstracted to the lexemes the extractor reacts to:    *)
(*   cities, types : canonical names whose keyword occurs in the text      *)
(*   trans         : transaction vocabularies that occur ("vente" for      *)
(*                   vente/acheter/achat, "location" for location/louer)   *)
(*   nums          : the digit runs of the text, in text order, each with  *)
(*                   the unit word that follows it ("millions" for         *)
(*                   millions?/m, "chambres", "m2", "none"), its digits d  *)
(*                   and the qualifier q found in the 50-character window  *)
(*                   around it ("max", "min", "none")                      *)
(*   emails, names : the e-mail addresses and the names introduced by      *)
(*                   "je m'appelle / mon nom est / je suis", in text order *)
(* Digit runs are taken to be separated by words, the word "million" to    *)
(* occur only after a number, and a qualifier window to stay inside its    *)
(* message.                                                                *)
(***************************************************************************)

NoText ==
    [cities |-> {}, types |-> {}, trans |-> {}, nums |-> <<>>,
     emails |-> <<>>, names |-> <<>>]

PhoneDigits == <<0, 6, 1, 2, 3, 4, 5, 6, 7, 8>>

\* The user messages the model draws from.
UserTexts == {"u_search", "u_named", "u_phone", "u_full"}

\* The assistant texts: what the language model generated, or the fixed
\* string _call_huggingface returns when the call fails.
\* The user messages of the turn processor taken alone: the above, a revised
\* budget written with a decimal point, and a farewell.
TurnTexts == UserTexts \cup {"u_revised", "u_bye"}

GeneratedTexts == {"r_echo"}
FallbackText == "r_fallback"
WelcomeText == "welcome"

TextOf(t) ==
    CASE t = "u_search" ->
         \* "Je cherche un appartement à Casablanca, budget max 1.5 millions"
         [NoText EXCEPT !.cities = {"Casablanca"}, !.types = {"appartement"},
            !.nums = << [unit |-> "none", d |-> <<1>>, q |-> "max"],
                        [unit |-> "millions", d |-> <<5>>, q |-> "max"] >>]
      [] t = "u_named" ->
         \* "je suis Karim, je cherche à Rabat, 3 chambres, budget 1500000"
         [NoText EXCEPT !.names = <<"Karim">>, !.cities = {"Rabat"},
            !.nums = << [unit |-> "chambres", d |-> <<3>>, q |-> "none"],
                        [unit |-> "none", d |-> <<1, 5, 0, 0, 0, 0, 0>>,
                         q |-> "none"] >>]
      [] t = "u_phone" ->
         \* "mon numéro est 0612345678"
         [NoText EXCEPT
            !.nums = << [unit |-> "none", d |-> PhoneDigits, q |-> "none"] >>]
      [] t = "u_full" ->
         \* "Je m'appelle Karim, 0612345678, je veux acheter une villa à Rabat"
         [NoText EXCEPT !.names = <<"Karim">>, !.cities = {"Rabat"},
            !.types = {"villa"}, !.trans = {"vente"},
            !.nums = << [unit |-> "none", d |-> PhoneDigits, q |-> "none"] >>]
      [] t = "u_revised" ->
         \* "finalement plutôt 2.0 millions": the first budget pattern,
         \* (\d+)\s*(?:millions?|m\b), matches "0 millions"
         [NoText EXCEPT
            !.nums = << [unit |-> "millions", d |-> <<0>>, q |-> "none"] >>]
      [] t = "x_max2m" ->
         \* "budget max 2 millions"
         [NoText EXCEPT
            !.nums = << [unit |-> "millions", d |-> <<2>>, q |-> "max"] >>]
      [] t = "x_from800k" ->
         \* "à partir de 800000"
         [NoText EXCEPT
            !.nums = << [unit |-> "none", d |-> <<8, 0, 0, 0, 0, 0>>,
                         q |-> "min"] >>]
      [] t = "x_from8m" ->
         \* "à partir de 8000000"
         [NoText EXCEPT
            !.nums = << [unit |-> "none", d |-> <<8, 0, 0, 0, 0, 0, 0>>,
                         q |-> "min"] >>]
      [] t = "x_plain" ->
         \* "mon budget est de 1500000"
         [NoText EXCEPT
            !.nums = << [unit |-> "none", d |-> <<1, 5, 0, 0, 0, 0, 0>>,
                         q |-> "none"] >>]
      [] t = "r_echo" ->
         \* "Parfait ! Donc vous cherchez un appartement à Casablanca. ..."
         [NoText EXCEPT !.cities = {"Casablanca"}, !.types = {"appartement"}]
      [] OTHER -> NoText   \* u_bye ("merci, au revoir"), r_fallback, welcome

\* int(<digit string>)
DigitsToInt(d) ==
    LET val[i \in 0..Len(d)] == IF i = 0 THEN 0 ELSE 10 * val[i - 1] + d[i]
    IN  val[Len(d)]

\* The concatenation of a sequence of sequences.
Concat(ss) ==
    LET cat[i \in 0..Len(ss)] == IF i = 0 THEN <<>> ELSE cat[i - 1] \o ss[i]
    IN  cat[Len(ss)]

\* The conversation text _process_message builds: every message, in order.
Transcript(messages) == [i \in 1..Len(messages) |-> TextOf(messages[i].content)]

TranscriptNums(tr) == Concat([i \in 1..Len(tr) |-> tr[i].nums])

\* SelectSeq with the predicates the extractor's regular expressions state.
IsMillions(n) == n.unit = "millions"
IsGrouped(n) == Len(n.d) >= 7
IsRooms(n) == n.unit = "chambres"
IsArea(n) == n.unit = "m2"
IsMobile(n) ==
    \E i \in 1..Len(n.d) :
        /\ i + 9 <= Len(n.d)
        /\ n.d[i] = 0
        /\ n.d[i + 1] \in 5..7
IsTenDigits(n) == Len(n.d) >= 10

\* How many digits of a run of L >= 7 digits the second budget pattern,
\* (\d{1,3}(?:\s?\d{3}){2,}), takes: a greedy head of 3, 2 or 1 digits, then
\* as many groups of three as fit, at least two.
GroupedLen(L) ==
    IF (L - 3) \div 3 >= 2 THEN 3 + 3 * ((L - 3) \div 3)
    ELSE IF (L - 2) \div 3 >= 2 THEN 2 + 3 * ((L - 2) \div 3)
    ELSE 1 + 3 * ((L - 1) \div 3)

Million == 1000000

NoCriteria ==
    [preferred_cities |-> {}, preferred_types |-> {}, transaction_type |-> None,
     budget_min |-> None, budget_max |-> None, rooms |-> None, area |-> None]

\* The digits m occur, in a row, in the digit run d.
OccursIn(m, d) ==
    \E i \in 0..(Len(d) - Len(m)) : SubSeq(d, i + 1, i + Len(m)) = m

\* The budget part of _extract_criteria: the first pattern, in priority
\* order, that matches anywhere in the text; its first match only.  The
\* qualifier is looked for around text.find(match): the first place of the
\* text where the matched digits occur, which may be inside an earlier number.
ExtractBudget(nums) ==
    LET p1 == SelectSeq(nums, IsMillions)
        p2 == SelectSeq(nums, IsGrouped)
        hit == IF p1 # <<>> THEN Some(p1[1])
               ELSE IF p2 # <<>> THEN Some(p2[1])
               ELSE None
    IN  IF hit = None THEN [budget_min |-> None, budget_max |-> None]
        ELSE LET n == hit[1]
                 matched == IF IsMillions(n) THEN n.d
                            ELSE SubSeq(n.d, 1, GroupedLen(Len(n.d)))
                 amount == IF IsMillions(n)
                           THEN DigitsToInt(matched) * Million
                           ELSE DigitsToInt(matched)
                 found == SelectSeq(nums, LAMBDA k : OccursIn(matched, k.d))
             IN  IF found[1].q = "min"
                 THEN [budget_min |-> Some(amount), budget_max |-> None]
                 ELSE [budget_min |-> None, budget_max |-> Some(amount)]

\* QualificationAgent._extract_criteria(conversation_text): the keys it sets
\* (an unset key is None, or the empty set for the two lists).
ExtractCriteria(tr) ==
    LET nums == TranscriptNums(tr)
        b == ExtractBudget(nums)
        rooms == SelectSeq(nums, IsRooms)
        area == SelectSeq(nums, IsArea)
        trans == UNION {tr[i].trans : i \in 1..Len(tr)}
    IN  [preferred_cities |-> UNION {tr[i].cities : i \in 1..Len(tr)},
         preferred_types |-> UNION {tr[i].types : i \in 1..Len(tr)},
         transaction_type |-> IF "vente" \in trans THEN Some("vente")
                              ELSE IF "location" \in trans THEN Some("location")
                              ELSE None,
         budget_min |-> b.budget_min,
         budget_max |-> b.budget_max,
         rooms |-> IF rooms # <<>> THEN Some(DigitsToInt(rooms[1].d)) ELSE None,
         area |-> IF area # <<>> THEN Some(DigitsToInt(area[1].d)) ELSE None]

\* dict.update(new_criteria): the keys the extraction set overwrite, the
\* others are kept.
UpdateCriteria(criteria, new) ==
    [preferred_cities |-> IF new.preferred_cities # {} THEN new.preferred_cities
                          ELSE criteria.preferred_cities,
     preferred_types |-> IF new.preferred_types # {} THEN new.preferred_types
                         ELSE criteria.preferred_types,
     transaction_type |-> IF new.transaction_type # None THEN new.transaction_type
                          ELSE criteria.transaction_type,
     budget_min |-> IF new.budget_min # None THEN new.budget_min
                    ELSE criteria.budget_min,
     budget_max |-> IF new.budget_max # None THEN new.budget_max
                    ELSE criteria.budget_max,
     rooms |-> IF new.rooms # None THEN new.rooms ELSE criteria.rooms,
     area |-> IF new.area # None THEN new.area ELSE criteria.area]

NoContact == [name |-> None, phone |-> None, email |-> None]

\* QualificationAgent._extract_contact_info(conversation_text).  re.findall
\* on a pattern with one group returns the group: the first phone pattern
\* yields its prefix group, "0" here, the second the ten digits.
ExtractContactInfo(tr) ==
    LET nums == TranscriptNums(tr)
        mobile == SelectSeq(nums, IsMobile)
        ten == SelectSeq(nums, IsTenDigits)
        emails == Concat([i \in 1..Len(tr) |-> tr[i].emails])
        names == Concat([i \in 1..Len(tr) |-> tr[i].names])
    IN  [name |-> IF names # <<>> THEN Some(names[1]) ELSE None,
         phone |-> IF mobile # <<>> THEN Some(<<0>>)
                   ELSE IF ten # <<>> THEN Some(SubSeq(ten[1].d, 1, 10))
                   ELSE None,
         email |-> IF emails # <<>> THEN Some(emails[1]) ELSE None]

\* dict.update(contact_info): the extraction returns all three keys, so all
\* three are overwritten.
UpdateContact(contact_info, new) == new

(***************************************************************************)
(* State.                                                                  *)
(***************************************************************************)

\* Bounds of the model.
MaxTurns == 2      \* user messages per conversation
MaxLeads == 2      \* rows the leads table takes
MaxProps == 1      \* listings a property search returns
MaxFaults == 1     \* store calls (select, insert, upsert) that raise

\* What a property search returns in the model: nothing, or MaxProps listings.
PropCounts == {0, MaxProps}

\* The conversation ids uuid4 hands out (each at most once).
ConvIds == {"c1"}

VARIABLES
    engine,   \* which engine is assembled: "agent", "workflow", ..., or "none"
    cache,    \* QualificationAgent._conversations_cache: id -> Optional state
    db,       \* store, table conversations: id -> Optional state snapshot
    leads,    \* store, table leads: the inserted rows, in insertion order
    ids,      \* the conversation ids generated so far
    faults,   \* store calls that raised so far
    last,     \* what the last agent call returned (and what it did)
    wf,       \* the workflow's ConversationState
    wfLast,   \* what the last workflow run did
    fin,      \* scorer harness: the inputs
    fout,     \* scorer harness: the outputs
    reqs      \* concurrent continue_conversation requests: where each one is

agentVars == <<cache, db, leads, ids, faults, last>>
wfVars == <<wf, wfLast>>
fnVars == <<fin, fout>>
vars == <<engine, cache, db, leads, ids, faults, last, wf, wfLast, fin, fout, reqs>>

\* A plausible slip in start_conversation: the lead quality left empty until
\* the first score.
InitialStateNoQuality ==
    [messages |-> <<>>,
     criteria |-> [budget_min |-> <<>>, budget_max |-> <<>>,
                   preferred_cities |-> {}, preferred_types |-> {},
                   transaction_type |-> <<>>, rooms |-> <<>>, area |-> <<>>],
     contact_info |-> [name |-> <<>>, phone |-> <<>>, email |-> <<>>],
     qualification_score |-> 0,
     lead_quality |-> "",
     status |-> "active",
     lead_id |-> <<>>]

\* start_conversation's initial conversation_state
InitialConversationState ==
    [messages |-> <<>>,
     criteria |-> NoCriteria,
     contact_info |-> NoContact,
     qualification_score |-> 0,
     lead_quality |-> "cold",
     status |-> "active",
     lead_id |-> None]

Message(role, content) == [role |-> role, content |-> content]

UserTurns(st) ==
    Len(SelectSeq(st.messages, LAMBDA m : m.role = "user"))

\* "if conversation_state['criteria']": the dict holds a key.
CriteriaNonEmpty(criteria) == criteria # NoCriteria

\* A plausible slip in the turn gate: the phone not required.
ShouldCreateLeadNoPhone(score, contact_info) ==
    score >= 50 /\ TruthyStr(contact_info.name)

\* _process_message's lead decision:
\* score >= 50 and contact_info["name"] and contact_info["phone"]
ShouldCreateLead(score, contact_info) ==
    /\ score >= 50
    /\ TruthyStr(contact_info.name)
    /\ TruthyDigits(contact_info.phone)

\* A plausible slip in _process_message: the new score returned but not
\* stored in the state.
TurnOutcomeStaleScore(st, m2, criteria, contact, score, response_text, matched, status) ==
    [state |-> [st EXCEPT !.messages = m2,
                          !.criteria = criteria,
                          !.contact_info = contact,
                          !.status = status],
     result |-> [response |-> response_text,
                 qualification_score |-> score,
                 lead_quality |-> DetermineLeadQuality(score),
                 should_create_lead |-> ShouldCreateLead(score, contact),
                 conversation_complete |-> (score >= 70 \/ Len(m2) > 20),
                 matched_properties_count |-> matched]]

\* The state and the returned dict _process_message builds from its locals.
\* status is the status the state is left with.
TurnOutcome(st, m2, criteria, contact, score, response_text, matched, status) ==
    [state |-> [st EXCEPT !.messages = m2,
                          !.criteria = criteria,
                          !.contact_info = contact,
                          !.qualification_score = score,
                          !.lead_quality = DetermineLeadQuality(score),
                          !.status = status],
     result |-> [response |-> response_text,
                 qualification_score |-> score,
                 lead_quality |-> DetermineLeadQuality(score),
                 should_create_lead |-> ShouldCreateLead(score, contact),
                 conversation_complete |-> (score >= 70 \/ Len(m2) > 20),
                 matched_properties_count |-> matched]]

\* The locals of _process_message, in the order the code computes them:
\* the transcript with the user message, the merged criteria and contact,
\* the score, the listings matched (searched only when criteria holds a key).
TurnLocals(st, user_message, response_text, nprops, status) ==
    Let(Append(st.messages, Message("user", user_message)), LAMBDA m1 :
    Let(Transcript(m1), LAMBDA tr :
    Let(UpdateCriteria(st.criteria, ExtractCriteria(tr)), LAMBDA criteria :
    Let(UpdateContact(st.contact_info, ExtractContactInfo(tr)), LAMBDA contact :
    Let(CalculateScore(criteria, contact), LAMBDA score :
        TurnOutcome(st, Append(m1, Message("assistant", response_text)),
                    criteria, contact, score, response_text,
                    IF CriteriaNonEmpty(criteria) THEN nprops ELSE 0,
                    status))))))

\* A plausible slip in _process_message: a new message reopens the
\* conversation.
ProcessMessageReopens(st, user_message, response_text, nprops) ==
    TurnLocals(st, user_message, response_text, nprops, "active")

\* A plausible slip in _process_message: when the reply is the fallback
\* string the turn's extraction and score are not stored.
ProcessMessageDropsOnFallback(st, user_message, response_text, nprops) ==
    IF response_text = FallbackText
    THEN TurnOutcome(st,
                     Append(Append(st.messages, Message("user", user_message)),
                            Message("assistant", response_text)),
                     st.criteria, st.contact_info, st.qualification_score,
                     response_text, 0, st.status)
    ELSE TurnLocals(st, user_message, response_text, nprops, st.status)

\* QualificationAgent._process_message(conversation_state, user_message).
\* response_text is what _generate_ai_response returned, nprops the number
\* of listings _match_properties returned.  Yields the updated state and the
\* returned dict; the status is left as it is.
ProcessMessage(st, user_message, response_text, nprops) ==
    TurnLocals(st, user_message, response_text, nprops, st.status)

\* The row _create_lead inserts; conv is not a column: it records which
\* conversation the row was created for.
LeadData(c, st) ==
    [conv |-> c,
     name |-> IF TruthyStr(st.contact_info.name) THEN st.contact_info.name
              ELSE Some("Prospect"),
     phone |-> st.contact_info.phone,
     email |-> st.contact_info.email,
     preferred_cities |-> st.criteria.preferred_cities,
     preferred_types |-> st.criteria.preferred_types,
     budget_min |-> st.criteria.budget_min,
     budget_max |-> st.criteria.budget_max,
     qualification_score |-> st.qualification_score]

\* QualificationAgent._get_conversation(conversation_id): the cached state,
\* else the stored one when the store answers (an exception gives None).
GetConversation(c, loadOk) ==
    IF cache[c] # None THEN cache[c]
    ELSE IF loadOk THEN db[c]
    ELSE None

\* What a call returned, and what it did: contact_info is the contact of the
\* state the call worked on, had_lead whether that state held a lead_id when
\* the call loaded it, inserted whether the call inserted a row into leads,
\* insert_failed whether an insert it tried failed.  properties_shown
\* (len(matched_properties) > 0) is recorded for _process_message taken alone.
NoResult ==
    [op |-> "none", conv |-> "", found |-> FALSE, response |-> "",
     qualification_score |-> 0, lead_quality |-> "", status |-> "",
     contact_info |-> NoContact, conversation_complete |-> FALSE,
     properties_shown |-> FALSE,
     should_create_lead |-> FALSE, lead_created |-> FALSE, lead_id |-> None,
     had_lead |-> FALSE, inserted |-> FALSE, insert_failed |-> FALSE]

(***************************************************************************)
(* QualificationAgent: the public operations.  Each action is one call,    *)
(* start to return.  The outcomes of the collaborators are inputs: the     *)
(* reply text (generated, or the fallback string when the call fails),     *)
(* the number of listings found, and whether each store call succeeds      *)
(* (_save_conversation_to_db, _create_lead and _get_conversation catch the *)
(* store's exceptions).                                                    *)
(***************************************************************************)

ReplyTexts == GeneratedTexts \cup {FallbackText}

\* A plausible slip in _save_conversation_to_db: the snapshot is written
\* without the lead_id.
SavedWithoutLeadId(store, c, st, ok) ==
    IF ok THEN [store EXCEPT ![c] = Some([st EXCEPT !.lead_id = None])] ELSE store

\* Two continue_conversation requests in flight.  The request layer builds
\* a QualificationAgent, with an empty cache, per request, so a request
\* shares only the store with the other one; it acts on the store at its
\* load, its save, its lead insert and its second save, and the calls of the
\* two requests may come in any order.
Requests == {1, 2}

NoRequest ==
    [pc |-> "idle", conv |-> "", user_message |-> "",
     st |-> InitialConversationState, base |-> 0, found |-> FALSE]

NoRequests == [r \in Requests |-> NoRequest]

\* A plausible slip in _save_conversation_to_db: the turn is appended to the
\* stored messages instead of the snapshot replacing the row.
SavedAppending(store, c, st, ok) ==
    IF ~ok THEN store
    ELSE IF store[c] = None THEN [store EXCEPT ![c] = Some(st)]
    ELSE [store EXCEPT ![c] = Some([st EXCEPT !.messages =
              store[c][1].messages
              \o SubSeq(st.messages, Len(st.messages) - 1, Len(st.messages))])]

\* A store write: the snapshot replaces the row when the upsert succeeds.
Saved(store, c, st, ok) == IF ok THEN [store EXCEPT ![c] = Some(st)] ELSE store

\* The outcomes of a store call: it is made (and then succeeds or raises), or
\* the code path does not reach it.
Outcomes(made) == IF made THEN BOOLEAN ELSE {TRUE}

\* How many of the store calls of one operation raised.
Raised(oks) == Cardinality({i \in DOMAIN oks : ~oks[i]})

\* The store calls of one operation, at most MaxFaults raising over a run.
StoreCalls(oks) ==
    /\ faults + Raised(oks) <= MaxFaults
    /\ faults' = faults + Raised(oks)

\* start_conversation(initial_message): initial is None or Some(text).
\* With no initial message the welcome text is the only message; with one,
\* the message is processed.  The result's should_create_lead is not read.
StartConversation(c, initial, reply, nprops) ==
    /\ engine = "agent"
    /\ c \notin ids
    /\ \E p \in {IF initial = None
                 THEN [state |-> [InitialConversationState EXCEPT
                                     !.messages = <<Message("assistant", WelcomeText)>>],
                       result |-> [response |-> WelcomeText,
                                   should_create_lead |-> FALSE]]
                 ELSE ProcessMessage(InitialConversationState, initial[1],
                                     reply, nprops)} :
       \E saveOk \in BOOLEAN :
           /\ StoreCalls(<<saveOk>>)
           /\ cache' = [cache EXCEPT ![c] = Some(p.state)]
           /\ db' = Saved(db, c, p.state, saveOk)
           /\ last' = [NoResult EXCEPT
                          !.op = "start", !.conv = c, !.found = TRUE,
                          !.response = p.result.response,
                          !.status = "active",
                          !.qualification_score = p.state.qualification_score,
                          !.lead_quality = p.state.lead_quality,
                          !.contact_info = p.state.contact_info,
                          !.should_create_lead = p.result.should_create_lead]
    /\ ids' = ids \cup {c}
    /\ UNCHANGED <<engine, leads, wfVars, fnVars, reqs>>

\* continue_conversation on an id _get_conversation does not find: raises
\* ValueError, nothing was touched.
ContinueNotFound(c, loadOk) ==
    /\ StoreCalls(<<loadOk>>)
    /\ last' = [NoResult EXCEPT !.op = "continue", !.conv = c]
    /\ UNCHANGED <<cache, db, leads>>

\* A plausible slip in continue_conversation: the exception of a failed save
\* reaches the caller instead of the result.
ContinueFoundSaveRaises(c, st, user_message, reply, nprops) ==
    /\ UserTurns(st) < MaxTurns
    /\ \E p \in {ProcessMessage(st, user_message, reply, nprops)} :
       \E create \in {p.result.should_create_lead /\ p.state.lead_id = None} :
       \E save1Ok \in BOOLEAN, insertOk \in Outcomes(create),
          save2Ok \in Outcomes(create) :
       LET lead_id == IF create /\ insertOk THEN Some(Len(leads) + 1) ELSE None
           st2 == IF create THEN [p.state EXCEPT !.lead_id = lead_id] ELSE p.state
           db1 == Saved(db, c, p.state, save1Ok)
       IN  /\ StoreCalls(<<save1Ok, insertOk, save2Ok>>)
           /\ (create /\ insertOk) => Len(leads) < MaxLeads
           /\ cache' = [cache EXCEPT ![c] = Some(st2)]
           /\ db' = IF create THEN Saved(db1, c, st2, save2Ok) ELSE db1
           /\ leads' = IF create /\ insertOk
                       THEN Append(leads, LeadData(c, p.state))
                       ELSE leads
           /\ last' = [NoResult EXCEPT
                  !.op = "continue", !.conv = c, !.found = save1Ok,
                  !.response = p.result.response,
                  !.status = st2.status,
                  !.qualification_score = p.result.qualification_score,
                  !.lead_quality = p.result.lead_quality,
                  !.contact_info = p.state.contact_info,
                  !.should_create_lead = p.result.should_create_lead,
                  !.conversation_complete = p.result.conversation_complete,
                  !.lead_id = st2.lead_id,
                  !.had_lead = (st.lead_id # None),
                  !.inserted = (create /\ insertOk),
                  !.insert_failed = (create /\ ~insertOk)]

\* continue_conversation once the state is loaded: the message is processed
\* and saved; if should_create_lead and the state holds no lead_id, the lead
\* is inserted, its id (None when the insert failed) is assigned to lead_id
\* and the state is saved again.  The cache holds the state object itself.
ContinueFound(c, st, user_message, reply, nprops) ==
    /\ UserTurns(st) < MaxTurns
    /\ \E p \in {ProcessMessage(st, user_message, reply, nprops)} :
       \E create \in {p.result.should_create_lead /\ p.state.lead_id = None} :
       \E save1Ok \in BOOLEAN, insertOk \in Outcomes(create),
          save2Ok \in Outcomes(create) :
       LET lead_id == IF create /\ insertOk THEN Some(Len(leads) + 1) ELSE None
           st2 == IF create THEN [p.state EXCEPT !.lead_id = lead_id] ELSE p.state
           db1 == Saved(db, c, p.state, save1Ok)
       IN  /\ StoreCalls(<<save1Ok, insertOk, save2Ok>>)
           /\ (create /\ insertOk) => Len(leads) < MaxLeads
           /\ cache' = [cache EXCEPT ![c] = Some(st2)]
           /\ db' = IF create THEN Saved(db1, c, st2, save2Ok) ELSE db1
           /\ leads' = IF create /\ insertOk
                       THEN Append(leads, LeadData(c, p.state))
                       ELSE leads
           /\ last' = [NoResult EXCEPT
                  !.op = "continue", !.conv = c, !.found = TRUE,
                  !.response = p.result.response,
                  !.status = st2.status,
                  !.qualification_score = p.result.qualification_score,
                  !.lead_quality = p.result.lead_quality,
                  !.contact_info = p.state.contact_info,
                  !.should_create_lead = p.result.should_create_lead,
                  !.conversation_complete = p.result.conversation_complete,
                  !.lead_id = st2.lead_id,
                  !.had_lead = (st.lead_id # None),
                  !.inserted = (create /\ insertOk),
                  !.insert_failed = (create /\ ~insertOk)]

\* continue_conversation(conversation_id, user_message)
ContinueConversation(c, user_message, reply, nprops) ==
    /\ engine = "agent"
    /\ \E loadOk \in Outcomes(cache[c] = None) :
       \E got \in {GetConversation(c, loadOk)} :
           IF got = None THEN ContinueNotFound(c, loadOk)
           ELSE ContinueFound(c, got[1], user_message, reply, nprops)
    /\ UNCHANGED <<engine, ids, wfVars, fnVars, reqs>>

\* get_active_conversations_count(): the number of cache entries.
GetActiveConversationsCount == Cardinality({c \in ConvIds : cache[c] # None})

\* get_conversation_state(conversation_id): a cache miss loads the stored
\* state into the cache.
GetConversationState(c) ==
    /\ engine = "agent"
    /\ \E loadOk \in Outcomes(cache[c] = None) :
       \E got \in {GetConversation(c, loadOk)} :
           /\ StoreCalls(<<loadOk>>)
           /\ cache' = [cache EXCEPT ![c] = got]
           /\ last' = IF got = None
                      THEN [NoResult EXCEPT !.op = "get", !.conv = c]
                      ELSE [NoResult EXCEPT
                              !.op = "get", !.conv = c, !.found = TRUE,
                              !.status = got[1].status,
                              !.qualification_score = got[1].qualification_score,
                              !.lead_quality = got[1].lead_quality,
                              !.lead_id = got[1].lead_id]
    /\ UNCHANGED <<engine, db, leads, ids, wfVars, fnVars, reqs>>

\* A plausible slip in end_conversation: the score gate dropped.
EndCreatesLeadAlways(st) == st.lead_id = None

\* A plausible slip in end_conversation: leads are left to the turns.
EndCreatesNoLead(st) == FALSE

\* end_conversation's lead gate:
\* not lead_id and conversation_state["qualification_score"] >= 50
EndCreatesLead(st) == st.lead_id = None /\ st.qualification_score >= 50

\* A plausible slip in end_conversation: an unknown id is treated as a fresh
\* conversation.
EndNotFoundCreates(c, loadOk) ==
    /\ StoreCalls(<<loadOk>>)
    /\ last' = [NoResult EXCEPT !.op = "end", !.conv = c]
    /\ cache' = [cache EXCEPT ![c] = Some(InitialConversationState)]
    /\ UNCHANGED <<db, leads>>

\* end_conversation on an id _get_conversation does not find: returns
\* {"error": ...}, nothing was touched.
EndNotFound(c, loadOk) ==
    /\ StoreCalls(<<loadOk>>)
    /\ last' = [NoResult EXCEPT !.op = "end", !.conv = c]
    /\ UNCHANGED <<cache, db, leads>>

\* end_conversation once the state is loaded.  The id of the lead it inserts
\* is a local of the call: the state's lead_id is not assigned.
EndFound(c, st) ==
    \E create \in {EndCreatesLead(st)} :
    \E insertOk \in Outcomes(create), saveOk \in BOOLEAN :
    LET lead_id == IF create
                   THEN (IF insertOk THEN Some(Len(leads) + 1) ELSE None)
                   ELSE st.lead_id
        st1 == [st EXCEPT !.status = "completed"]
    IN  /\ StoreCalls(<<insertOk, saveOk>>)
        /\ (create /\ insertOk) => Len(leads) < MaxLeads
        /\ leads' = IF create /\ insertOk
                    THEN Append(leads, LeadData(c, st))
                    ELSE leads
        /\ db' = Saved(db, c, st1, saveOk)
        /\ cache' = [cache EXCEPT ![c] = None]
        /\ last' = [NoResult EXCEPT
               !.op = "end", !.conv = c, !.found = TRUE,
               !.status = "completed",
               !.qualification_score = st1.qualification_score,
               !.lead_quality = st1.lead_quality,
               !.contact_info = st1.contact_info,
               !.lead_created = create,
               !.lead_id = lead_id,
               !.had_lead = (st.lead_id # None),
               !.inserted = (create /\ insertOk),
               !.insert_failed = (create /\ ~insertOk)]

\* end_conversation(conversation_id, reason)
EndConversation(c) ==
    /\ engine = "agent"
    /\ \E loadOk \in Outcomes(cache[c] = None) :
       \E got \in {GetConversation(c, loadOk)} :
           IF got = None THEN EndNotFound(c, loadOk) ELSE EndFound(c, got[1])
    /\ UNCHANGED <<engine, ids, wfVars, fnVars, reqs>>

\* The request layer builds a QualificationAgent per request: the next call
\* starts from an empty cache.
NewAgent ==
    /\ engine = "agent"
    /\ cache' = [c \in ConvIds |-> None]
    /\ last' = [NoResult EXCEPT !.op = "new_agent"]
    /\ UNCHANGED <<engine, db, leads, ids, faults, wfVars, fnVars, reqs>>

\* continue_conversation of request r, up to the return of _get_conversation:
\* the agent's cache is empty, the state is the stored snapshot (or nothing,
\* and the call raises ValueError).
RaceLoad(r, c, user_message) ==
    /\ engine = "race"
    /\ reqs[r].pc = "idle"
    /\ \E loadOk \in BOOLEAN :
       \E got \in {IF loadOk THEN db[c] ELSE None} :
           /\ StoreCalls(<<loadOk>>)
           /\ reqs' = [reqs EXCEPT ![r] =
                  IF got = None
                  THEN [NoRequest EXCEPT !.pc = "done", !.conv = c,
                                         !.user_message = user_message]
                  ELSE [pc |-> "loaded", conv |-> c,
                        user_message |-> user_message, st |-> got[1],
                        base |-> Len(got[1].messages), found |-> TRUE]]
    /\ UNCHANGED <<engine, cache, db, leads, ids, last, wfVars, fnVars>>

\* continue_conversation of request r, from _process_message to the first
\* _save_conversation_to_db.
RaceProcessAndSave(r, reply, nprops) ==
    /\ engine = "race"
    /\ reqs[r].pc = "loaded"
    /\ \E p \in {ProcessMessage(reqs[r].st, reqs[r].user_message, reply, nprops)} :
       \E create \in {p.result.should_create_lead /\ p.state.lead_id = None} :
       \E saveOk \in BOOLEAN :
           /\ StoreCalls(<<saveOk>>)
           /\ db' = Saved(db, reqs[r].conv, p.state, saveOk)
           /\ reqs' = [reqs EXCEPT ![r].st = p.state,
                                   ![r].pc = IF create THEN "saved" ELSE "done"]
    /\ UNCHANGED <<engine, cache, leads, ids, last, wfVars, fnVars>>

\* continue_conversation of request r: _create_lead and the assignment of
\* its result to lead_id.
RaceCreateLead(r) ==
    /\ engine = "race"
    /\ reqs[r].pc = "saved"
    /\ \E insertOk \in BOOLEAN :
           /\ StoreCalls(<<insertOk>>)
           /\ insertOk => Len(leads) < MaxLeads
           /\ leads' = IF insertOk
                       THEN Append(leads, LeadData(reqs[r].conv, reqs[r].st))
                       ELSE leads
           /\ reqs' = [reqs EXCEPT
                  ![r].st.lead_id = IF insertOk THEN Some(Len(leads) + 1) ELSE None,
                  ![r].pc = "inserted"]
    /\ UNCHANGED <<engine, cache, db, ids, last, wfVars, fnVars>>

\* continue_conversation of request r: the second _save_conversation_to_db
\* and the return.
RaceSaveLead(r) ==
    /\ engine = "race"
    /\ reqs[r].pc = "inserted"
    /\ \E saveOk \in BOOLEAN :
           /\ StoreCalls(<<saveOk>>)
           /\ db' = Saved(db, reqs[r].conv, reqs[r].st, saveOk)
           /\ reqs' = [reqs EXCEPT ![r].pc = "done"]
    /\ UNCHANGED <<engine, cache, leads, ids, last, wfVars, fnVars>>

\* _process_message taken alone, on the state of conversation c: the turn
\* processor without the store, on the wider set of user messages.
TurnStep(c, user_message, reply, nprops) ==
    /\ engine = "turns"
    /\ cache[c] # None
    /\ UserTurns(cache[c][1]) < MaxTurns
    /\ \E p \in {ProcessMessage(cache[c][1], user_message, reply, nprops)} :
           /\ cache' = [cache EXCEPT ![c] = Some(p.state)]
           /\ last' = [NoResult EXCEPT
                  !.op = "turn", !.conv = c, !.found = TRUE,
                  !.response = p.result.response,
                  !.status = p.state.status,
                  !.qualification_score = p.result.qualification_score,
                  !.lead_quality = p.result.lead_quality,
                  !.contact_info = p.state.contact_info,
                  !.should_create_lead = p.result.should_create_lead,
                  !.conversation_complete = p.result.conversation_complete,
                  !.properties_shown = (p.result.matched_properties_count > 0)]
    /\ UNCHANGED <<engine, db, leads, ids, faults, wfVars, fnVars, reqs>>

(***************************************************************************)
(* QualificationWorkflow (workflow.py) over state.py's ConversationState.  *)
(***************************************************************************)

MaxWfTurns == 3    \* workflow runs of one conversation
EngagementCap == 10

\* state.create_initial_state()
CreateInitialState ==
    [messages |-> <<>>,
     current_user_message |-> "",
     assistant_response |-> "",
     full_name |-> None, phone |-> None, email |-> None,
     transaction_type |-> None, property_type |-> None,
     cities |-> {}, neighborhoods |-> {},
     budget_min |-> None, budget_max |-> None,
     bedrooms |-> None, surface_min |-> None,
     amenities |-> {},
     timeframe |-> None,
     budget_defined |-> FALSE, location_defined |-> FALSE,
     property_type_defined |-> FALSE, timeframe_defined |-> FALSE,
     contact_info_complete |-> FALSE,
     specific_criteria_count |-> 0,
     engagement_level |-> 0,
     qualification_score |-> 0,
     lead_quality |-> "cold",
     matched_properties |-> 0,
     properties_shown |-> FALSE,
     conversation_complete |-> FALSE,
     should_create_lead |-> FALSE]

\* What the extraction model returned, as parsed JSON (a key it left out or
\* set to null is None, or the empty set for the arrays).
NoExtract ==
    [budget_min |-> None, budget_max |-> None, cities |-> {},
     neighborhoods |-> {}, property_type |-> None, transaction_type |-> None,
     bedrooms |-> None, surface_min |-> None, amenities |-> {},
     full_name |-> None, phone |-> None, email |-> None, timeframe |-> None]

Extracts ==
    { NoExtract,
      [NoExtract EXCEPT !.budget_max = Some(2000000),
                        !.cities = {"Casablanca"},
                        !.property_type = Some("appartement")],
      [NoExtract EXCEPT !.full_name = Some("Karim"),
                        !.phone = Some(PhoneDigits)],
      [NoExtract EXCEPT !.full_name = Some("Karim"), !.budget_min = Some(800000),
                        !.property_type = Some("villa")],
      [NoExtract EXCEPT !.phone = Some(PhoneDigits), !.neighborhoods = {"Maarif"}],
      [NoExtract EXCEPT !.bedrooms = Some(3),
                        !.amenities = {"parking", "piscine"},
                        !.timeframe = Some("3 mois")] }

\* The user messages of the workflow: one with no keyword, one asking for
\* listings ("propriété" / "bien"), one taking leave ("merci", ...).
WfUserTexts == {"w_plain", "w_props", "w_bye"}
AsksForProperties(t) == t = "w_props"
WantsToEnd(t) == t = "w_bye"

\* A plausible slip in the flags: the specific criteria counted without the
\* amenities.
QualificationFlagsNoAmenities(state) ==
    [state EXCEPT
        !.budget_defined = TruthyInt(state.budget_min) \/ TruthyInt(state.budget_max),
        !.location_defined = state.cities # {} \/ state.neighborhoods # {},
        !.property_type_defined = TruthyStr(state.property_type),
        !.specific_criteria_count =
            (IF TruthyInt(state.bedrooms) THEN 1 ELSE 0)
            + (IF TruthyInt(state.surface_min) THEN 1 ELSE 0)]

\* update_state_with_criteria, second half: the qualification flags and the
\* count of specific criteria.
QualificationFlags(state) ==
    [state EXCEPT
        !.budget_defined = TruthyInt(state.budget_min) \/ TruthyInt(state.budget_max),
        !.location_defined = state.cities # {} \/ state.neighborhoods # {},
        !.property_type_defined = TruthyStr(state.property_type),
        !.specific_criteria_count =
            (IF TruthyInt(state.bedrooms) THEN 1 ELSE 0)
            + (IF TruthyInt(state.surface_min) THEN 1 ELSE 0)
            + Cardinality(state.amenities)]

\* A plausible slip in update_state_with_criteria: the cities assigned
\* instead of merged.
UpdateStateReplacesCities(state, criteria) ==
    QualificationFlags(
        [state EXCEPT
            !.transaction_type = IF TruthyStr(criteria.transaction_type)
                                 THEN criteria.transaction_type ELSE @,
            !.property_type = IF TruthyStr(criteria.property_type)
                              THEN criteria.property_type ELSE @,
            !.cities = criteria.cities,
            !.neighborhoods = @ \cup criteria.neighborhoods,
            !.budget_min = IF TruthyInt(criteria.budget_min)
                           THEN criteria.budget_min ELSE @,
            !.budget_max = IF TruthyInt(criteria.budget_max)
                           THEN criteria.budget_max ELSE @,
            !.bedrooms = IF TruthyInt(criteria.bedrooms) THEN criteria.bedrooms ELSE @,
            !.surface_min = IF TruthyInt(criteria.surface_min)
                            THEN criteria.surface_min ELSE @,
            !.amenities = @ \cup criteria.amenities])

\* state.update_state_with_criteria(state, criteria)
UpdateStateWithCriteria(state, criteria) ==
    QualificationFlags(
        [state EXCEPT
            !.transaction_type = IF TruthyStr(criteria.transaction_type)
                                 THEN criteria.transaction_type ELSE @,
            !.property_type = IF TruthyStr(criteria.property_type)
                              THEN criteria.property_type ELSE @,
            !.cities = @ \cup criteria.cities,
            !.neighborhoods = @ \cup criteria.neighborhoods,
            !.budget_min = IF TruthyInt(criteria.budget_min)
                           THEN criteria.budget_min ELSE @,
            !.budget_max = IF TruthyInt(criteria.budget_max)
                           THEN criteria.budget_max ELSE @,
            !.bedrooms = IF TruthyInt(criteria.bedrooms) THEN criteria.bedrooms ELSE @,
            !.surface_min = IF TruthyInt(criteria.surface_min)
                            THEN criteria.surface_min ELSE @,
            !.amenities = @ \cup criteria.amenities])

\* QualificationWorkflow._process_user_input
WfProcessUserInput(state) ==
    [state EXCEPT
        !.messages = Append(@, Message("user", state.current_user_message)),
        !.engagement_level = Min(@ + 1, EngagementCap)]

\* QualificationWorkflow._extract_criteria: extracted is None when the call
\* or the JSON parse raised (the state is then left as it is).
WfExtractCriteria(state, extracted) ==
    IF extracted = None THEN state
    ELSE LET e == extracted[1]
             s1 == UpdateStateWithCriteria(state, e)
             s2 == [s1 EXCEPT
                      !.full_name = IF TruthyStr(e.full_name) THEN e.full_name ELSE @,
                      !.phone = IF TruthyDigits(e.phone) THEN e.phone ELSE @,
                      !.email = IF TruthyStr(e.email) THEN e.email ELSE @,
                      !.timeframe = IF TruthyStr(e.timeframe) THEN e.timeframe ELSE @,
                      !.timeframe_defined = IF TruthyStr(e.timeframe) THEN TRUE ELSE @]
         IN  [s2 EXCEPT !.contact_info_complete =
                            TruthyStr(s2.full_name) /\ TruthyDigits(s2.phone)]

\* A plausible slip in the workflow gate: the contact not required.
WfCalculateScoreNoContact(state) ==
    LET score == CalculateQualificationScore(
                     state.budget_defined, state.location_defined,
                     state.property_type_defined, state.timeframe_defined,
                     state.contact_info_complete, state.specific_criteria_count,
                     state.engagement_level)
        s1 == [state EXCEPT !.qualification_score = score,
                            !.lead_quality = ClassifyLeadQuality(score)]
    IN  [s1 EXCEPT !.should_create_lead = IsLeadQualified(s1)]

\* QualificationWorkflow._calculate_score
WfCalculateScore(state) ==
    LET score == CalculateQualificationScore(
                     state.budget_defined, state.location_defined,
                     state.property_type_defined, state.timeframe_defined,
                     state.contact_info_complete, state.specific_criteria_count,
                     state.engagement_level)
        s1 == [state EXCEPT !.qualification_score = score,
                            !.lead_quality = ClassifyLeadQuality(score)]
    IN  [s1 EXCEPT !.should_create_lead =
                       IsLeadQualified(s1) /\ s1.contact_info_complete]

\* state.is_ready_for_property_search
IsReadyForPropertySearch(state) ==
    (IF state.budget_defined THEN 1 ELSE 0)
    + (IF state.location_defined THEN 1 ELSE 0)
    + (IF state.property_type_defined THEN 1 ELSE 0) >= 2

\* QualificationWorkflow._should_search_properties
ShouldSearchProperties(state) ==
    /\ IsReadyForPropertySearch(state)
    /\ \/ ~state.properties_shown
       \/ AsksForProperties(state.current_user_message)

\* QualificationWorkflow._search_properties: nprops listings came back
WfSearchProperties(state, nprops) ==
    [state EXCEPT !.matched_properties = nprops, !.properties_shown = TRUE]

\* QualificationWorkflow._generate_response: the reply is appended when the
\* model answered; when it raised only assistant_response is set.
WfGenerateResponse(state, replyOk) ==
    IF replyOk
    THEN [state EXCEPT !.assistant_response = "r_plain",
                       !.messages = Append(@, Message("assistant", "r_plain"))]
    ELSE [state EXCEPT !.assistant_response = "r_sorry"]

\* QualificationWorkflow._should_continue_conversation = "finalize"
ShouldFinalize(state) ==
    \/ state.should_create_lead /\ state.contact_info_complete
    \/ WantsToEnd(state.current_user_message)

\* QualificationWorkflow._finalize_conversation
WfFinalizeConversation(state) == [state EXCEPT !.conversation_complete = TRUE]

\* QualificationWorkflow.run(user_message, existing_state): the graph
\* process_user_input -> extract_criteria -> calculate_score ->
\* [search_properties] -> generate_response -> [finalize_conversation].
WorkflowRun(user_message, extracted, nprops, replyOk) ==
    /\ engine = "workflow"
    /\ UserTurns(wf) < MaxWfTurns
    /\ \E s1 \in {WfProcessUserInput(
                      [wf EXCEPT !.current_user_message = user_message])} :
       \E s2 \in {WfExtractCriteria(s1, extracted)} :
       \E s3 \in {WfCalculateScore(s2)} :
       \E search \in {ShouldSearchProperties(s3)} :
       \E s4 \in {IF search THEN WfSearchProperties(s3, nprops) ELSE s3} :
       \E s5 \in {WfGenerateResponse(s4, replyOk)} :
       \E finalize \in {ShouldFinalize(s5)} :
           /\ wf' = IF finalize THEN WfFinalizeConversation(s5) ELSE s5
           /\ wfLast' = [ran |-> TRUE, searched |-> search,
                         finalized |-> finalize, replied |-> replyOk]
    /\ UNCHANGED <<engine, agentVars, fnVars, reqs>>

(***************************************************************************)
(* The scorers and classifiers as pure functions: inputs drawn at Init,    *)
(* one action per function.                                                *)
(***************************************************************************)

MaxAmenities == 3
MaxScore == 100

AmenityNames == <<"parking", "piscine", "jardin", "ascenseur", "terrasse">>
AmenitySets == {{AmenityNames[i] : i \in 1..k} : k \in 0..MaxAmenities}

TurnInputs ==
    [criteria : [preferred_cities : {{}, {"Rabat"}},
                 preferred_types : {{}, {"villa"}},
                 transaction_type : {None, Some("vente")},
                 budget_min : {None, Some(800000)},
                 budget_max : {None, Some(0), Some(2000000)},
                 rooms : {None, Some(0), Some(3)},
                 area : {None, Some(80)}],
     contact : [name : {None, Some("Karim")},
                phone : {None, Some(<<0>>)},
                email : {None, Some("k@sabbar.ma")}]]

WorkflowInputs ==
    [budget_min : {None, Some(800000)},
     budget_max : {None, Some(0), Some(2000000)},
     cities : {{}, {"Rabat"}},
     neighborhoods : {{}, {"Agdal"}},
     property_type : {None, Some("villa")},
     bedrooms : {None, Some(3)},
     surface_min : {None, Some(80)},
     amenities : AmenitySets,
     timeframe_defined : BOOLEAN,
     contact_info_complete : BOOLEAN,
     engagement_level : 0..EngagementCap]

NoTurnInput == [criteria |-> NoCriteria, contact |-> NoContact]
NoWorkflowInput ==
    [budget_min |-> None, budget_max |-> None, cities |-> {}, neighborhoods |-> {},
     property_type |-> None, bedrooms |-> None, surface_min |-> None,
     amenities |-> {}, timeframe_defined |-> FALSE,
     contact_info_complete |-> FALSE, engagement_level |-> 0]

NoOutput == [fn |-> "none", score |-> 0, quality |-> "", other |-> ""]

\* The workflow state the inputs describe.
WorkflowStateOf(w) ==
    [CreateInitialState EXCEPT
        !.budget_min = w.budget_min, !.budget_max = w.budget_max,
        !.cities = w.cities, !.neighborhoods = w.neighborhoods,
        !.property_type = w.property_type, !.bedrooms = w.bedrooms,
        !.surface_min = w.surface_min, !.amenities = w.amenities,
        !.timeframe_defined = w.timeframe_defined,
        !.contact_info_complete = w.contact_info_complete,
        !.engagement_level = w.engagement_level]

\* _calculate_score and _determine_lead_quality on the drawn inputs
ScoreTurn ==
    /\ engine = "none" /\ fin.kind = "turn" /\ fout.fn = "none"
    /\ LET score == CalculateScore(fin.turn.criteria, fin.turn.contact)
       IN  fout' = [fn |-> "turn", score |-> score,
                    quality |-> DetermineLeadQuality(score), other |-> ""]
    /\ UNCHANGED <<engine, agentVars, wfVars, fin, reqs>>

\* update_state_with_criteria's flags, then the workflow's _calculate_score
ScoreWorkflow ==
    /\ engine = "none" /\ fin.kind = "workflow" /\ fout.fn = "none"
    /\ LET s == WfCalculateScore(QualificationFlags(WorkflowStateOf(fin.wf)))
       IN  fout' = [fn |-> "workflow", score |-> s.qualification_score,
                    quality |-> s.lead_quality, other |-> ""]
    /\ UNCHANGED <<engine, agentVars, wfVars, fin, reqs>>

\* both classifiers on one score
Classify ==
    /\ engine = "none" /\ fin.kind = "classify" /\ fout.fn = "none"
    /\ fout' = [fn |-> "classify", score |-> fin.n,
                quality |-> DetermineLeadQuality(fin.n),
                other |-> ClassifyLeadQuality(fin.n)]
    /\ UNCHANGED <<engine, agentVars, wfVars, fin, reqs>>

(***************************************************************************)
(* Specifications.                                                         *)
(***************************************************************************)

NoInput == [kind |-> "none", turn |-> NoTurnInput, wf |-> NoWorkflowInput, n |-> 0]

InitAgentVars ==
    /\ cache = [c \in ConvIds |-> None]
    /\ db = [c \in ConvIds |-> None]
    /\ faults = 0
    /\ leads = <<>>
    /\ ids = {}
    /\ last = NoResult

InitWfVars ==
    /\ wf = CreateInitialState
    /\ wfLast = [ran |-> FALSE, searched |-> FALSE, finalized |-> FALSE,
                 replied |-> FALSE]

\* The agent is constructed, or the workflow is: one engine per assembly.
Init ==
    /\ engine \in {"agent", "workflow"}
    /\ InitAgentVars
    /\ InitWfVars
    /\ fin = NoInput
    /\ fout = NoOutput
    /\ reqs = NoRequests

Next ==
    \/ \E c \in ConvIds, initial \in {None} \cup {Some(t) : t \in UserTexts},
          reply \in ReplyTexts, nprops \in PropCounts :
          StartConversation(c, initial, reply, nprops)
    \/ \E c \in ConvIds, t \in UserTexts, reply \in ReplyTexts,
          nprops \in PropCounts :
          ContinueConversation(c, t, reply, nprops)
    \/ \E c \in ConvIds : GetConversationState(c)
    \/ \E c \in ConvIds : EndConversation(c)
    \/ NewAgent
    \/ \E t \in WfUserTexts, e \in {None} \cup {Some(x) : x \in Extracts},
          nprops \in PropCounts, replyOk \in BOOLEAN :
          WorkflowRun(t, e, nprops, replyOk)

Spec == Init /\ [][Next]_vars

InitScore ==
    /\ engine = "none"
    /\ InitAgentVars
    /\ InitWfVars
    /\ fout = NoOutput
    /\ reqs = NoRequests
    /\ \/ \E t \in TurnInputs : fin = [NoInput EXCEPT !.kind = "turn", !.turn = t]
       \/ \E w \in WorkflowInputs : fin = [NoInput EXCEPT !.kind = "workflow", !.wf = w]
       \/ \E n \in 0..MaxScore : fin = [NoInput EXCEPT !.kind = "classify", !.n = n]

NextScore == ScoreTurn \/ ScoreWorkflow \/ Classify

SpecScore == InitScore /\ [][NextScore]_vars

\* The two turn processors without the store: _process_message on a fresh
\* conversation state, or the workflow.
InitTurns ==
    /\ engine \in {"turns", "workflow"}
    /\ cache = [c \in ConvIds |-> Some(InitialConversationState)]
    /\ db = [c \in ConvIds |-> None]
    /\ faults = 0
    /\ leads = <<>>
    /\ ids = ConvIds
    /\ last = NoResult
    /\ InitWfVars
    /\ fin = NoInput
    /\ fout = NoOutput
    /\ reqs = NoRequests

NextTurns ==
    \/ \E c \in ConvIds, t \in TurnTexts, reply \in ReplyTexts,
          nprops \in PropCounts :
          TurnStep(c, t, reply, nprops)
    \/ \E t \in WfUserTexts, e \in {None} \cup {Some(x) : x \in Extracts},
          nprops \in PropCounts, replyOk \in BOOLEAN :
          WorkflowRun(t, e, nprops, replyOk)

SpecTurns == InitTurns /\ [][NextTurns]_vars

\* Two concurrent continue_conversation requests on a conversation that
\* start_conversation, called without a message, has stored.
InitRace ==
    /\ engine = "race"
    /\ cache = [c \in ConvIds |-> None]
    /\ db = [c \in ConvIds |->
                Some([InitialConversationState EXCEPT
                         !.messages = <<Message("assistant", WelcomeText)>>])]
    /\ faults = 0
    /\ leads = <<>>
    /\ ids = ConvIds
    /\ last = NoResult
    /\ InitWfVars
    /\ fin = NoInput
    /\ fout = NoOutput
    /\ reqs = NoRequests

NextRace ==
    \/ \E r \in Requests, c \in ConvIds, t \in UserTexts : RaceLoad(r, c, t)
    \/ \E r \in Requests, reply \in ReplyTexts, nprops \in PropCounts :
          RaceProcessAndSave(r, reply, nprops)
    \/ \E r \in Requests : RaceCreateLead(r)
    \/ \E r \in Requests : RaceSaveLead(r)

SpecRace == InitRace /\ [][NextRace]_vars

(***************************************************************************)
(* The property searches and the text renderings of their results, as pure *)
(* functions: the call is drawn at Init, one action per entry point.  The  *)
(* rows of the inventory that pass the filters are numbered 1..rows, in    *)
(* the order the store returns them; query.limit(n) keeps the first n.     *)
(***************************************************************************)

MaxRows == 12        \* inventory rows that pass the filters
DefaultLimit == 10   \* PropertySearchTool.search(criteria, limit=10)
AgentLimit == 5      \* _match_properties: query.limit(5)
WorkflowLimit == 5   \* _search_properties: search(criteria, limit=5)
ContextShown == 3    \* _build_context: matched_properties[:3]

FirstRows(rows, n) == [i \in 1..Min(rows, n) |-> i]

\* PropertySearchTool.search(criteria, limit): limit is None when the caller
\* leaves it out; an exception of the store gives the empty list.
Search(rows, limit, ok) ==
    IF ok THEN FirstRows(rows, IF limit = None THEN DefaultLimit ELSE limit[1])
    ELSE <<>>

\* QualificationAgent._match_properties(criteria)
MatchProperties(rows, ok) == IF ok THEN FirstRows(rows, AgentLimit) ELSE <<>>

\* PropertySearchTool.format_results(properties): the properties it lists
\* (none for the empty list, which gets the "Aucune propriété" sentence).
FormatResults(properties) == properties

\* QualificationAgent._build_context: the properties the context block lists.
BuildContext(properties) ==
    SubSeq(properties, 1, Min(Len(properties), ContextShown))

\* The limits a caller of PropertySearchTool.search passes.
LimitArgs == {1, 3, 5, 10, MaxRows}

SearchInputs ==
    {[kind |-> "tool", rows |-> n, limit |-> l, ok |-> b] :
         n \in 0..MaxRows, l \in {None} \cup {Some(k) : k \in LimitArgs},
         b \in BOOLEAN}
    \cup {[kind |-> k, rows |-> n, limit |-> None, ok |-> b] :
              k \in {"agent", "workflow"}, n \in 0..MaxRows, b \in BOOLEAN}

NoSearchOutput == [fn |-> "none", returned |-> <<>>, listed |-> <<>>]

\* PropertySearchTool.search called directly, its result formatted.
SearchTool ==
    /\ engine = "search" /\ fin.kind = "tool" /\ fout.fn = "none"
    /\ \E found \in {Search(fin.rows, fin.limit, fin.ok)} :
           fout' = [fn |-> "tool", returned |-> found,
                    listed |-> FormatResults(found)]
    /\ UNCHANGED <<engine, agentVars, wfVars, fin, reqs>>

\* The agent's turn: _match_properties, then _build_context for the prompt.
AgentSearch ==
    /\ engine = "search" /\ fin.kind = "agent" /\ fout.fn = "none"
    /\ \E found \in {MatchProperties(fin.rows, fin.ok)} :
           fout' = [fn |-> "agent", returned |-> found,
                    listed |-> BuildContext(found)]
    /\ UNCHANGED <<engine, agentVars, wfVars, fin, reqs>>

\* The workflow's turn: _search_properties, then _generate_response, which
\* formats matched_properties when the list is not empty.
WorkflowSearch ==
    /\ engine = "search" /\ fin.kind = "workflow" /\ fout.fn = "none"
    /\ \E found \in {Search(fin.rows, Some(WorkflowLimit), fin.ok)} :
           fout' = [fn |-> "workflow", returned |-> found,
                    listed |-> IF found # <<>> THEN FormatResults(found)
                               ELSE <<>>]
    /\ UNCHANGED <<engine, agentVars, wfVars, fin, reqs>>

InitSearch ==
    /\ engine = "search"
    /\ InitAgentVars
    /\ InitWfVars
    /\ fin \in SearchInputs
    /\ fout = NoSearchOutput
    /\ reqs = NoRequests

NextSearch == SearchTool \/ AgentSearch \/ WorkflowSearch

SpecSearch == InitSearch /\ [][NextSearch]_vars

(***************************************************************************)
(* The extractors as pure functions: the conversation (one user message,   *)
(* or two with the assistant's reply between them) is drawn at Init, one   *)
(* action applies _extract_criteria and _extract_contact_info to its text. *)
(***************************************************************************)

\* The user messages of the extractor's inputs: those of the turns, and
\* budgets written with and without a qualifier.
ExtractTexts == TurnTexts \cup {"x_max2m", "x_from800k", "x_from8m", "x_plain"}

ExtractInputs ==
    {<<Message("user", t)>> : t \in ExtractTexts}
    \cup {<<Message("user", t1), Message("assistant", r), Message("user", t2)>> :
              t1 \in ExtractTexts, r \in ReplyTexts, t2 \in ExtractTexts}

NoExtractOutput == [fn |-> "none", criteria |-> NoCriteria, contact |-> NoContact]

\* _process_message's two extraction calls on the conversation text.
Extract ==
    /\ engine = "extract" /\ fout.fn = "none"
    /\ \E tr \in {Transcript(fin.messages)} :
           fout' = [fn |-> "extract", criteria |-> ExtractCriteria(tr),
                    contact |-> ExtractContactInfo(tr)]
    /\ UNCHANGED <<engine, agentVars, wfVars, fin, reqs>>

InitExtract ==
    /\ engine = "extract"
    /\ InitAgentVars
    /\ InitWfVars
    /\ \E m \in ExtractInputs : fin = [kind |-> "extract", messages |-> m]
    /\ fout = NoExtractOutput
    /\ reqs = NoRequests

NextExtract == Extract

SpecExtract == InitExtract /\ [][NextExtract]_vars

(***************************************************************************)
(* Properties.                                                             *)
(***************************************************************************)

\* The rows of the leads table created for conversation c.
LeadsOf(c) == {i \in 1..Len(leads) : leads[i].conv = c}

\* The last call was a turn: start_conversation, or a continue_conversation
\* that found the conversation.
TurnDone == last.op \in {"start", "continue"} /\ last.found

\* The last call was an end_conversation that found the conversation and
\* the conversation held no lead.
EndDoneNoLead == last.op = "end" /\ last.found /\ ~last.had_lead

\* C1: whatever calls are made on a conversation, the leads table holds at
\* most one row created for it.
C1_AtMostOneLead == \A c \in ConvIds : Cardinality(LeadsOf(c)) <= 1

\* C2: every row of the leads table was inserted with a qualification score
\* of at least 50 and a phone.
C2_LeadHasScoreAndPhone ==
    \A i \in 1..Len(leads) :
        leads[i].qualification_score >= 50 /\ TruthyDigits(leads[i].phone)

\* C3: once the stored conversation is completed, no step changes its
\* messages, criteria or contact_info.
C3_CompletedIsFrozen ==
    [][\A c \in ConvIds :
          (db[c] # None /\ db[c][1].status = "completed" /\ db'[c] # None)
          => /\ db'[c][1].messages = db[c][1].messages
             /\ db'[c][1].criteria = db[c][1].criteria
             /\ db'[c][1].contact_info = db[c][1].contact_info]_vars

\* The status of every conversation, cached or stored, is active or
\* completed.
StatusOK ==
    \A c \in ConvIds :
        /\ cache[c] # None => cache[c][1].status \in {"active", "completed"}
        /\ db[c] # None => db[c][1].status \in {"active", "completed"}

\* C4: a status is active or completed, and a conversation that is completed,
\* in the store or in the cache, is not active after any step.
C4_StatusOnlyCompletes ==
    /\ []StatusOK
    /\ [][\A c \in ConvIds :
             /\ (db[c] # None /\ db[c][1].status = "completed")
                => (db'[c] # None /\ db'[c][1].status = "completed")
             /\ (cache[c] # None /\ cache[c][1].status = "completed"
                 /\ cache'[c] # None)
                => cache'[c][1].status = "completed"]_vars

\* C4's case: a turn was processed on a completed conversation.
C4_Witness ==
    /\ last.op = "continue" /\ last.found /\ last.status = "completed"
    /\ db[last.conv] # None /\ db[last.conv][1].status = "completed"
    /\ Len(db[last.conv][1].messages) > 1

\* C5: after every turn, of the agent and of the workflow, should_create_lead
\* is true exactly when the score is at least 50 and the name and the phone
\* are present.
C5_ShouldCreateLeadIff ==
    /\ TurnDone =>
          (last.should_create_lead <=>
              /\ last.qualification_score >= 50
              /\ TruthyStr(last.contact_info.name)
              /\ TruthyDigits(last.contact_info.phone))
    /\ wfLast.ran =>
          (wf.should_create_lead <=>
              /\ wf.qualification_score >= 50
              /\ TruthyStr(wf.full_name)
              /\ TruthyDigits(wf.phone))

\* C5's case: a turn left a score of 55 with a name and no phone, and
\* should_create_lead false.
C5_Witness ==
    /\ TurnDone
    /\ last.qualification_score = 55
    /\ TruthyStr(last.contact_info.name)
    /\ ~TruthyDigits(last.contact_info.phone)
    /\ ~last.should_create_lead

\* C6: after a turn (the opening message included) with should_create_lead
\* true on a conversation without a lead, unless the insert failed, a lead
\* row was inserted and the conversation's lead_id is set.
C6_TurnCreatesLead ==
    (TurnDone /\ last.should_create_lead /\ ~last.had_lead
        /\ ~last.insert_failed)
    => /\ last.inserted
       /\ cache[last.conv] # None
       /\ cache[last.conv][1].lead_id # None

C8_ScoreInRange ==
    fout.fn \in {"turn", "workflow"} => fout.score \in 0..MaxScore

\* C8's case: the workflow scorer at full engagement with more specific
\* criteria than the 10 points pay for.
C8_Witness ==
    /\ fout.fn = "workflow"
    /\ fin.wf.engagement_level = EngagementCap
    /\ Cardinality(fin.wf.amenities) >= 3
    /\ fout.score = MaxScore

\* The indicator of a condition, as points.
Points(b, n) == IF b THEN n ELSE 0

C10_SameLabel ==
    fout.fn = "classify" =>
        /\ fout.quality = fout.other
        /\ fout.quality = (IF fout.score >= 70 THEN "hot"
                           ELSE IF fout.score >= 50 THEN "warm"
                           ELSE "cold")

\* The score and the label of an agent conversation state are the ones its
\* criteria and contact give.
ScoreIsDerived(st) ==
    /\ st.qualification_score = CalculateScore(st.criteria, st.contact_info)
    /\ st.lead_quality = DetermineLeadQuality(st.qualification_score)

\* C11: in every state, cached or stored, of an agent conversation and in the
\* workflow's state, qualification_score is the scorer applied to the current
\* criteria and contact, and lead_quality is the engine's classification of
\* that score.
C11_ScoreIsDerived ==
    /\ \A c \in ConvIds :
          /\ cache[c] # None => ScoreIsDerived(cache[c][1])
          /\ db[c] # None => ScoreIsDerived(db[c][1])
    /\ wf.qualification_score =
          CalculateQualificationScore(
              wf.budget_defined, wf.location_defined, wf.property_type_defined,
              wf.timeframe_defined, wf.contact_info_complete,
              wf.specific_criteria_count, wf.engagement_level)
    /\ wf.lead_quality = ClassifyLeadQuality(wf.qualification_score)

\* C11's case: a stored conversation that two turns brought to a score of
\* at least 70.
C11_Witness ==
    \E c \in ConvIds :
        /\ db[c] # None
        /\ UserTurns(db[c][1]) = 2
        /\ db[c][1].qualification_score >= 70
        /\ db[c][1].lead_quality = "hot"

\* C12: no turn lowers the qualification score of a conversation, in the
\* agent's turn processor or in the workflow.
C12_ScoreNeverDecreases ==
    [][/\ \A c \in ConvIds :
             (cache[c] # None /\ cache'[c] # None)
             => cache'[c][1].qualification_score
                    >= cache[c][1].qualification_score
       /\ wf'.qualification_score >= wf.qualification_score]_vars

\* C13: every turn, of the agent's turn processor and of the workflow,
\* leaves messages as they were plus the user message and then one assistant
\* message holding the reply of the turn.
C13_TurnAppendsUserAndReply ==
    [][/\ \A c \in ConvIds :
             (cache[c] # None /\ cache'[c] # None /\ cache'[c] # cache[c])
             => \E t \in TurnTexts :
                   cache'[c][1].messages =
                       cache[c][1].messages
                       \o << Message("user", t),
                             Message("assistant", last'.response) >>
       /\ wf' # wf
          => wf'.messages =
                 wf.messages
                 \o << Message("user", wf'.current_user_message),
                       Message("assistant", wf'.assistant_response) >>]_vars

\* An Optional number that is set stays set; an Optional string or digit
\* string that is set stays set and not empty.
StaysSet(old, new) == old # None => new # None
StrStaysSet(old, new) == old # None => TruthyStr(new)
DigitsStaySet(old, new) == old # None => TruthyDigits(new)

\* Across one step of the agent's turn processor: no city or type leaves the
\* criteria, no scalar criterion and no contact field that was set is unset.
AgentKeeps(old, new) ==
    /\ old.criteria.preferred_cities \subseteq new.criteria.preferred_cities
    /\ old.criteria.preferred_types \subseteq new.criteria.preferred_types
    /\ StaysSet(old.criteria.budget_min, new.criteria.budget_min)
    /\ StaysSet(old.criteria.budget_max, new.criteria.budget_max)
    /\ StaysSet(old.criteria.rooms, new.criteria.rooms)
    /\ StaysSet(old.criteria.area, new.criteria.area)
    /\ StrStaysSet(old.contact_info.name, new.contact_info.name)
    /\ DigitsStaySet(old.contact_info.phone, new.contact_info.phone)
    /\ StrStaysSet(old.contact_info.email, new.contact_info.email)

\* Across one workflow run: no city leaves the state, no scalar criterion and
\* no contact field that was set is unset.
WorkflowKeeps(old, new) ==
    /\ old.cities \subseteq new.cities
    /\ StrStaysSet(old.property_type, new.property_type)
    /\ StaysSet(old.budget_min, new.budget_min)
    /\ StaysSet(old.budget_max, new.budget_max)
    /\ StaysSet(old.bedrooms, new.bedrooms)
    /\ StaysSet(old.surface_min, new.surface_min)
    /\ StrStaysSet(old.full_name, new.full_name)
    /\ DigitsStaySet(old.phone, new.phone)
    /\ StrStaysSet(old.email, new.email)

\* C14 as stated: no step removes a city or a property type that was
\* present, or unsets a scalar criterion or contact field, in the agent's
\* criteria or in the workflow's state.
C14_NothingRemoved ==
    [][/\ \A c \in ConvIds :
             (cache[c] # None /\ cache'[c] # None)
             => AgentKeeps(cache[c][1], cache'[c][1])
       /\ WorkflowKeeps(wf, wf')
       /\ wf.property_type # None => wf'.property_type = wf.property_type]_vars

\* C14, amended: the same, except that the workflow's single property_type
\* may be replaced by a later extraction (it stays set).
C14_NothingRemovedButWorkflowType ==
    [][/\ \A c \in ConvIds :
             (cache[c] # None /\ cache'[c] # None)
             => AgentKeeps(cache[c][1], cache'[c][1])
       /\ WorkflowKeeps(wf, wf')]_vars

\* C14's case: a second turn added a city to a conversation that holds a
\* budget, a room count and a name from the first.
C14_Witness ==
    \E c \in ConvIds :
        /\ cache[c] # None
        /\ UserTurns(cache[c][1]) = 2
        /\ cache[c][1].criteria.preferred_cities = {"Casablanca", "Rabat"}
        /\ cache[c][1].criteria.rooms # None
        /\ cache[c][1].criteria.budget_max # None
        /\ cache[c][1].contact_info.name # None
        /\ cache[c][1].messages[1].content = "u_named"

\* The user message of the agent's last turn, and whether it takes leave
\* ("merci, au revoir").
LastUserMessage(st) == st.messages[Len(st.messages) - 1].content
TakesLeave(t) == t = "u_bye"

\* C15: after every turn, conversation_complete is true when the score is
\* at least 70, or the conversation holds more than 20 messages, or the
\* user's message held a farewell keyword.
C15_CompleteWhenDue ==
    /\ \A c \in ConvIds :
           (last.op = "turn" /\ last.conv = c /\ cache[c] # None)
           => ((\/ cache[c][1].qualification_score >= 70
                \/ Len(cache[c][1].messages) > 20
                \/ TakesLeave(LastUserMessage(cache[c][1])))
               => last.conversation_complete)
    /\ wfLast.ran
       => ((\/ wf.qualification_score >= 70
            \/ Len(wf.messages) > 20
            \/ WantsToEnd(wf.current_user_message))
           => wf.conversation_complete)

\* C16: continue_conversation, get_conversation_state and end_conversation
\* on an id with no cached and no stored state report "not found" and leave
\* the cache, the conversation store and the leads as they were.
C16_NotFoundTouchesNothing ==
    [][\A c \in ConvIds :
           (/\ last'.op \in {"continue", "get", "end"}
            /\ last'.conv = c
            /\ cache[c] = None
            /\ db[c] = None)
           => (/\ ~last'.found
               /\ cache' = cache
               /\ db' = db
               /\ leads' = leads)]_vars

\* C16's case: end_conversation was called, the store answering, on an id
\* that start_conversation had issued but whose state is neither cached nor
\* stored (its save failed and the agent was rebuilt).
C16_Witness ==
    \E c \in ids :
        /\ last.op = "end"
        /\ last.conv = c
        /\ ~last.found
        /\ cache[c] = None
        /\ db[c] = None
        /\ faults = MaxFaults

\* The state a call on conversation c works on: the cached one, else the
\* stored one.
Loaded(c) == IF cache[c] # None THEN cache[c] ELSE db[c]

\* The step is a turn of the agent on c whose reply is the fallback string.
FallbackTurn(c) ==
    /\ last'.op \in {"start", "continue"}
    /\ last'.conv = c
    /\ last'.found
    /\ last'.response = FallbackText

\* After a fallback turn on c the state holds the fallback reply, is still
\* active if it was, and holds the criteria, contact and score that the
\* transcript up to the user's message gives; the call returned that score.
FallbackTurnKeeps(c) ==
    LET pre == IF last'.op = "start" THEN InitialConversationState
               ELSE Loaded(c)[1]
        new == cache'[c][1]
        n == Len(new.messages)
        tr == Transcript(SubSeq(new.messages, 1, n - 1))
        criteria == UpdateCriteria(pre.criteria, ExtractCriteria(tr))
        contact == UpdateContact(pre.contact_info, ExtractContactInfo(tr))
    IN  /\ new.messages[n] = Message("assistant", FallbackText)
        /\ pre.status = "active" => new.status = "active"
        /\ new.criteria = criteria
        /\ new.contact_info = contact
        /\ new.qualification_score = CalculateScore(criteria, contact)
        /\ last'.qualification_score = new.qualification_score

\* A run of the workflow whose reply generation raised: the apology is the
\* reply, the user's message and the engagement it adds are kept, nothing
\* held before is removed, the score is the one the flags give, and the
\* conversation is complete only if it was or if the turn finalizes it.
FailedReplyKeeps ==
    /\ wf'.assistant_response = "r_sorry"
    /\ wf'.messages = Append(wf.messages, Message("user", wf'.current_user_message))
    /\ wf'.engagement_level = Min(wf.engagement_level + 1, EngagementCap)
    /\ WorkflowKeeps(wf, wf')
    /\ wf'.qualification_score =
          CalculateQualificationScore(
              wf'.budget_defined, wf'.location_defined,
              wf'.property_type_defined, wf'.timeframe_defined,
              wf'.contact_info_complete, wf'.specific_criteria_count,
              wf'.engagement_level)
    /\ wf'.conversation_complete =
          (wf.conversation_complete \/ ShouldFinalize(wf'))

TriedInsert == last'.inserted \/ last'.insert_failed

TurnWithFailedWrite(c) ==
    /\ last'.op = "start" \/ (last'.op = "continue" /\ cache[c] # None)
    /\ last'.conv = c
    /\ faults' > faults

\* After the turn on c the cached state ends with the reply that the call
\* returned and holds the criteria, contact and score that the transcript
\* up to the user's message gives.
TurnUpdatesKept(c) ==
    LET pre == IF last'.op = "start" THEN InitialConversationState
               ELSE Loaded(c)[1]
        new == cache'[c][1]
        n == Len(new.messages)
        tr == Transcript(SubSeq(new.messages, 1, n - 1))
        criteria == UpdateCriteria(pre.criteria, ExtractCriteria(tr))
        contact == UpdateContact(pre.contact_info, ExtractContactInfo(tr))
    IN  /\ n > Len(pre.messages)
        /\ new.messages[n] = Message("assistant", last'.response)
        /\ new.criteria = criteria
        /\ new.contact_info = contact
        /\ new.qualification_score = CalculateScore(criteria, contact)

\* C19: a start_conversation or continue_conversation in which a write to
\* the store fails returns its result (no error), with the reply and the
\* score of the turn, and the cached state holds the turn's updates.
C19_FailedSaveStillReturns ==
    [][\A c \in ConvIds :
          TurnWithFailedWrite(c)
          => (/\ last'.found
              /\ last'.response \in ReplyTexts \cup {WelcomeText}
              /\ cache'[c] # None
              /\ last'.qualification_score = cache'[c][1].qualification_score
              /\ TurnUpdatesKept(c))]_vars

\* C19's case: the save of a second turn failed; the call returned the
\* turn's score and the cache is a turn ahead of the store.
C19_Witness ==
    \E c \in ConvIds :
        /\ last.op = "continue"
        /\ last.conv = c
        /\ last.found
        /\ ~last.insert_failed
        /\ faults = MaxFaults
        /\ cache[c] # None
        /\ db[c] # None
        /\ UserTurns(cache[c][1]) = 2
        /\ UserTurns(db[c][1]) = 1
        /\ last.qualification_score = cache[c][1].qualification_score
        /\ last.qualification_score > db[c][1].qualification_score

\* The step is a call of one of ops on c that found the conversation.
Called(ops, c) == last'.op \in ops /\ last'.conv = c /\ last'.found

\* C20: after a start_conversation or continue_conversation in which no store
\* call raised, the stored snapshot equals the cached state; after such an
\* end_conversation the stored snapshot is the state the call worked on,
\* completed, and the cache entry is gone; a call that misses the cache works
\* on the stored snapshot: get_conversation_state caches it as it is, and
\* continue_conversation extends its messages and updates its criteria.
C20_StoreEqualsMemory ==
    [][\A c \in ConvIds :
          /\ (Called({"start", "continue"}, c) /\ faults' = faults)
             => (cache'[c] # None /\ db'[c] = cache'[c])
          /\ (Called({"end"}, c) /\ faults' = faults)
             => (/\ db'[c] = Some([Loaded(c)[1] EXCEPT !.status = "completed"])
                 /\ cache'[c] = None)
          /\ (Called({"get"}, c) /\ cache[c] = None)
             => (cache'[c] = db[c] /\ db' = db)
          /\ (Called({"continue"}, c) /\ cache[c] = None)
             => (/\ SubSeq(cache'[c][1].messages, 1, Len(db[c][1].messages))
                       = db[c][1].messages
                 /\ cache'[c][1].status = db[c][1].status
                 /\ TurnUpdatesKept(c))]_vars

\* C20's case: a conversation of two turns that holds a lead was ended, its
\* cache entry deleted, and get_conversation_state reloaded the stored
\* snapshot, no store call having raised.
C20_Witness ==
    \E c \in ConvIds :
        /\ last.op = "get"
        /\ last.conv = c
        /\ last.found
        /\ faults = 0
        /\ cache[c] # None
        /\ cache[c] = db[c]
        /\ cache[c][1].status = "completed"
        /\ cache[c][1].lead_id # None
        /\ UserTurns(cache[c][1]) = 2

\* Two requests have returned, found the conversation, and had loaded the
\* same snapshot (each loaded before the other saved), no store call raising.
BothLoadedThenSaved(r1, r2) ==
    /\ r1 # r2
    /\ reqs[r1].pc = "done" /\ reqs[r2].pc = "done"
    /\ reqs[r1].found /\ reqs[r2].found
    /\ reqs[r1].conv = reqs[r2].conv
    /\ reqs[r1].base = reqs[r2].base
    /\ faults = 0

\* C21: when two continue_conversation calls on one conversation both load
\* the state before either saves, the stored conversation is the state of
\* one of the two calls: it holds one turn more than the loaded snapshot,
\* not two (last write wins).
C21_LastWriteWins ==
    \A r1, r2 \in Requests :
        BothLoadedThenSaved(r1, r2)
        => LET c == reqs[r1].conv
           IN  /\ db[c] \in {Some(reqs[r1].st), Some(reqs[r2].st)}
               /\ Len(db[c][1].messages) = reqs[r1].base + 2

\* C21's case: the two calls carried different messages, both returned, and
\* the stored conversation holds the second one's message and not the
\* first one's.
C21_Witness ==
    /\ BothLoadedThenSaved(1, 2)
    /\ reqs[1].user_message = "u_named"
    /\ reqs[2].user_message = "u_search"
    /\ db[reqs[1].conv] = Some(reqs[2].st)
    /\ \A i \in 1..Len(db[reqs[1].conv][1].messages) :
           db[reqs[1].conv][1].messages[i].content # "u_named"

\* The limit the contract gives a search: the one passed, 5 when none is.
ContractLimit == IF fin.limit = None THEN 5 ELSE fin.limit[1]

\* C22: a property search, the store answering, returns at most limit
\* listings and exactly limit when more rows match, where limit is 5 when
\* the caller passes none and never more than 10 listings are returned.
C22_SearchBounded ==
    (engine = "search" /\ fout.fn # "none" /\ fin.ok)
    => /\ Len(fout.returned) <= ContractLimit
       /\ fin.rows > ContractLimit => Len(fout.returned) = ContractLimit
       /\ Len(fout.returned) <= 10

\* C23: the text rendered from the matched properties lists at most the
\* first 3 of them.
C23_RenderingListsThree ==
    (engine = "search" /\ fout.fn # "none")
    => /\ Len(fout.listed) <= 3
       /\ fout.listed = SubSeq(fout.returned, 1, Len(fout.listed))

\* C24: a start_conversation that processed no user message returns the
\* welcome text and score 0, and leaves the conversation active, cold, with
\* empty criteria and contact, no lead_id, and the welcome message as its
\* only message; no reply was generated and no lead insert was tried.
C24_StartWithoutMessage ==
    [][\A c \in ConvIds :
          (/\ last'.op = "start" /\ last'.conv = c
           /\ UserTurns(cache'[c][1]) = 0)
          => (/\ last'.response = WelcomeText
              /\ last'.qualification_score = 0
              /\ last'.status = "active"
              /\ cache'[c][1] =
                    [messages |-> <<Message("assistant", WelcomeText)>>,
                     criteria |-> NoCriteria,
                     contact_info |-> NoContact,
                     qualification_score |-> 0,
                     lead_quality |-> "cold",
                     status |-> "active",
                     lead_id |-> None]
              /\ leads' = leads
              /\ ~last'.inserted /\ ~last'.insert_failed)]_vars

\* C24's case: a conversation was started without a message and stored.
C24_Witness ==
    \E c \in ConvIds :
        /\ last.op = "start"
        /\ last.conv = c
        /\ last.response = WelcomeText
        /\ cache[c] # None
        /\ Len(cache[c][1].messages) = 1
        /\ db[c] = cache[c]

\* The extraction ran on a conversation whose only message is t.
ExtractedFrom(t) ==
    /\ engine = "extract" /\ fout.fn = "extract"
    /\ fin.messages = <<Message("user", t)>>

\* C25: one extraction pass sets at most one of budget_min and budget_max:
\* "budget max 2 millions" gives budget_max 2,000,000 and no budget_min,
\* "à partir de 800000" gives budget_min 800000, and an amount without a
\* qualifier gives budget_max.
C25_BudgetByQualifier ==
    /\ (engine = "extract" /\ fout.fn = "extract")
       => ~(fout.criteria.budget_min # None /\ fout.criteria.budget_max # None)
    /\ ExtractedFrom("x_max2m")
       => (/\ fout.criteria.budget_max = Some(2000000)
           /\ fout.criteria.budget_min = None)
    /\ ExtractedFrom("x_from800k")
       => fout.criteria.budget_min = Some(800000)
    /\ ExtractedFrom("x_plain")
       => (/\ fout.criteria.budget_max = Some(1500000)
           /\ fout.criteria.budget_min = None)

\* C26: the phone that the extraction stores is the whole number: for a
\* message holding 0612345678 it is 0612345678, and a stored phone is never
\* shorter than the ten digits of a number.
C26_PhoneIsWholeNumber ==
    /\ ExtractedFrom("u_phone") => fout.contact.phone = Some(PhoneDigits)
    /\ (engine = "extract" /\ fout.fn = "extract" /\ fout.contact.phone # None)
       => Len(fout.contact.phone[1]) >= 10

\* How many of budget, location and property type the agent's criteria hold.
CriteriaDefined(criteria) ==
    (IF TruthyInt(criteria.budget_min) \/ TruthyInt(criteria.budget_max)
     THEN 1 ELSE 0)
    + (IF criteria.preferred_cities # {} THEN 1 ELSE 0)
    + (IF criteria.preferred_types # {} THEN 1 ELSE 0)

\* C27: on every turn the property search runs exactly when at least two of
\* budget, location and property type are defined and either no properties
\* were shown before or the user's message asks for properties, and a search
\* leaves properties_shown true.  For the agent, whose result shows a search
\* only through the properties it found: properties are found on a turn only
\* when at least two of the three are defined.
C27_SearchIffReady ==
    [][/\ wf' # wf
          => /\ wfLast'.searched
                <=> (/\ IsReadyForPropertySearch(wf')
                     /\ \/ ~wf.properties_shown
                        \/ AsksForProperties(wf'.current_user_message))
             /\ wfLast'.searched => wf'.properties_shown
       /\ \A c \in ConvIds :
             (last'.op = "turn" /\ last'.conv = c /\ last'.properties_shown)
             => CriteriaDefined(cache'[c][1].criteria) >= 2]_vars

\* C28: end_conversation reports lead_created only if the call inserted a
\* lead, and then returns its lead_id; when the insert fails it reports
\* lead_created false.
C28_LeadCreatedIsTrue ==
    (last.op = "end" /\ last.found)
    => /\ last.lead_created => (last.inserted /\ last.lead_id # None)
       /\ last.insert_failed => ~last.lead_created

\* C29: once a continue_conversation or an end_conversation that inserted a
\* lead for a conversation has completed with no store call raising, the
\* stored state of the conversation holds the id of that lead in lead_id.
C29_CreatedLeadIsReferenced ==
    [][\A c \in ConvIds :
          (/\ Called({"continue", "end"}, c)
           /\ last'.inserted
           /\ faults' = faults)
          => (/\ db'[c] # None
              /\ db'[c][1].lead_id = Some(Len(leads')))]_vars

\* C30: every conversation held in the cache has status active, so
\* get_active_conversations_count is the number of active cached
\* conversations.
C30_CacheHoldsOnlyActive ==
    /\ \A c \in ConvIds : cache[c] # None => cache[c][1].status = "active"
    /\ GetActiveConversationsCount
           = Cardinality({c \in ConvIds :
                 cache[c] # None /\ cache[c][1].status = "active"})

=============================================================================
